---- MODULE Spec2Model ----
(***************************************************************************)
(* Model of the DataJunction tracker (src/tracker.js): the payload queue,  *)
(* the batch timer, the dispatcher and the operations that feed them.      *)
(*                                                                         *)
(* Every operation of the tracker runs to completion on the page's single  *)
(* thread, so each one is one action.  The body of an operation is written *)
(* as a function from tracker state (a record) to tracker state, composed  *)
(* in the order of the calls in the source; an uncaught exception is the   *)
(* field "thrown", and it cuts the rest of the call chain as it does in    *)
(* JavaScript.                                                             *)
(*                                                                         *)
(* Time is in milliseconds.  A pending setTimeout is a record with the     *)
(* time that remains; time does not advance past a timer that is due.      *)
(***************************************************************************)
EXTENDS Integers, Sequences, FiniteSets, TLC

\* ---------------------------------------------------------------- bounds

\* payloads built in one behaviour
MaxPayloads == 9
\* calls of trackEvent and trackConversion in one behaviour
MaxTrackCalls == 2
\* an operation that can start deliveries runs while at most this many
\* earlier deliveries are unsettled
MaxUnsettled == 1
\* calls of init in one behaviour
MaxInits == 1
\* the cap of the idle time that is recorded
IdleCap == 6000
\* the largest advance of the clock in one step
TickMs == 2500

\* delays throttle is called with
ThrottleDelays == {2, 3}
\* calls of one throttled function in one behaviour
MaxThrottleCalls == 4
\* Date.now() when the page starts, and how far the clock runs from there
StartTime == 10
MaxElapsed == 8

\* ------------------------------------------------------- program constants

\* config.batchSize and config.batchTimeout as constructed
DefaultBatchSize == 10
DefaultBatchTimeout == 5000

\* the value of batchTimer when no timer is held
Null == 0

GasUrl == "https://x/ingest"

\* config as constructed (tracker.js 20-27)
DefaultConfig ==
  [gasUrl |-> "", siteId |-> "", enabled |-> TRUE, debug |-> FALSE,
   batchSize |-> DefaultBatchSize, batchTimeout |-> DefaultBatchTimeout]

\* The option objects the host page passes to init.  A key that is absent
\* from the object is absent from the record.
InitOptions ==
  { [gasUrl |-> GasUrl, siteId |-> "s1", batchSize |-> 2, batchTimeoutMs |-> 1000],
    [gasUrl |-> GasUrl, siteId |-> "s1", batchSize |-> 3, batchTimeout |-> 2500],
    [gasUrl |-> GasUrl, siteId |-> "s1", enabled |-> FALSE],
    [siteId |-> "s1"] }

\* ------------------------------------------------------------------ state

VARIABLES
  config,           \* DataJunction.config
  dataQueue,        \* DataJunction.dataQueue: sequence of payloads
  batchTimer,       \* DataJunction.batchTimer: Null or a timer handle
  timers,           \* pending setTimeout callbacks: records [h, rem, delay]
  seq,              \* number of payloads built so far (payload ids 1..seq)
  sentLog,          \* ids of the payloads sendToGAS was called with, in call order
  inflight,         \* ids whose fetch has been started and has not settled
  flushes,          \* the flushQueue calls of the operation that ran last that
                    \* passed their guard, in call order
  flushCount,       \* number of flushQueue calls that passed their guard
  sinceFlush,       \* payloads enqueued since the last such flush
  calls,            \* the sendData calls of the operation that ran last
  thrown,           \* the operation that ran last ended in an uncaught exception
  idle,             \* time since the last enqueue (capped)
  lastDone,         \* outcome of the delivery that settled last
  loadListeners,    \* 'load' listeners registered by trackPerformanceData
  unloadListeners,  \* 'beforeunload' listeners registered by setupEventListeners
  loadFired,        \* the window's load event has been dispatched
  unloaded,         \* the page has been unloaded
  inits,            \* number of init calls
  trackCalls,       \* number of trackEvent and trackConversion calls
  calledEnabled,    \* some tracking call was made while config.enabled was true
  stray,            \* some payload was built while config.gasUrl was empty
  sizes             \* the values of config.batchSize payloads were enqueued under

trackerVars ==
  <<config, dataQueue, batchTimer, timers, seq, sentLog, inflight,
    flushes, flushCount, sinceFlush, calls, thrown, idle, lastDone,
    loadListeners, unloadListeners, loadFired, unloaded, inits, trackCalls,
    calledEnabled, stray, sizes>>

\* One function returned by throttle(func, delay), the clock it reads and the
\* calls made of it.  The n-th call passes n as its arguments.
VARIABLES
  throttleDelay,    \* delay of the throttle call; 0 before throttle is called
  now,              \* Date.now()
  lastExecTime,     \* lastExecTime of the closure
  timeoutId,        \* timeoutId of the closure: Null or a timer handle
  throttleTimers,   \* pending setTimeout callbacks: records [h, due, args]
  throttleCalls,    \* the calls of the returned function, in order
  execs             \* the invocations of func, in order

throttleVars ==
  <<throttleDelay, now, lastExecTime, timeoutId, throttleTimers, throttleCalls,
    execs>>

vars == <<trackerVars, throttleVars>>

\* -------------------------------------------------------------- helpers

Min(a, b) == IF a < b THEN a ELSE b

\* Object.assign(target, source)
Assign(target, source) ==
  [k \in (DOMAIN target) \cup (DOMAIN source) |->
     IF k \in DOMAIN source THEN source[k] ELSE target[k]]

\* setTimeout returns a handle no pending timer has; the model takes the
\* least one that is neither pending nor held in batchTimer
NewHandle(ts, held) ==
  CHOOSE h \in 1..(Cardinality(ts) + 2) :
    /\ h \notin {t.h : t \in ts} \cup {held}
    /\ \A g \in 1..(h - 1) : g \in {t.h : t \in ts} \cup {held}

\* clearTimeout(h)
ClearTimeout(ts, h) == {t \in ts : t.h # h}

\* the tracker state the operations transform; fired is the delay of the
\* timer whose callback is running, 0 outside a timer callback
Cur ==
  [dataQueue |-> dataQueue, batchTimer |-> batchTimer, timers |-> timers,
   seq |-> seq, sentLog |-> sentLog,
   inflight |-> inflight, flushes |-> <<>>, flushCount |-> flushCount,
   sinceFlush |-> sinceFlush, calls |-> <<>>, thrown |-> FALSE, idle |-> idle,
   calledEnabled |-> calledEnabled, stray |-> stray, sizes |-> sizes,
   fired |-> 0]

Commit(s) ==
  /\ dataQueue' = s.dataQueue
  /\ batchTimer' = s.batchTimer
  /\ timers' = s.timers
  /\ seq' = s.seq
  /\ sentLog' = s.sentLog
  /\ inflight' = s.inflight
  /\ flushes' = s.flushes
  /\ flushCount' = s.flushCount
  /\ sinceFlush' = s.sinceFlush
  /\ calls' = s.calls
  /\ thrown' = s.thrown
  /\ idle' = s.idle
  /\ calledEnabled' = s.calledEnabled
  /\ stray' = s.stray
  /\ sizes' = s.sizes
  /\ lastDone' = "none"
  /\ UNCHANGED throttleVars


\* ------------------------------------------------------------ dispatcher

\* sendToGAS(data), called by flushQueue (armed records whether batchTimer
\* holds a handle at the call): the argument of fetch is built first, and JSON.stringify
\* throws on data it cannot serialize (a cyclic event_data), before fetch is
\* called and so outside the promise chain that has the catch.  Otherwise the
\* request starts and settles later (action Settle).
SendToGAS(s, cfg, data) ==
  LET called == [s EXCEPT !.sentLog = Append(@, data.id),
                          !.flushes[Len(s.flushes)].started = Append(@, data),
                          !.flushes[Len(s.flushes)].armed =
                             Append(@, s.batchTimer # Null)]
  IN IF ~data.ser
       THEN [called EXCEPT !.thrown = TRUE]
       ELSE [called EXCEPT !.inflight = @ \cup {data.id}]

\* queueData.forEach(data => this.sendToGAS(data)): an exception ends the loop
RECURSIVE ForEachSend(_, _, _, _)
ForEachSend(s, cfg, queueData, i) ==
  IF i > Len(queueData) \/ s.thrown
    THEN s
    ELSE ForEachSend(SendToGAS(s, cfg, queueData[i]), cfg, queueData, i + 1)

\* flushQueue leaving the batch timer as it is
FlushQueue_KeepTimer(s, cfg, kind) ==
  IF Len(s.dataQueue) = 0
    THEN s
    ELSE LET queueData == s.dataQueue
             cleared == [s EXCEPT !.dataQueue = <<>>,
                                  !.flushCount = @ + 1,
                                  !.sinceFlush = 0,
                                  !.flushes = Append(@, [kind |-> kind,
                                                         snapshot |-> queueData,
                                                         started |-> <<>>,
                                                         armed |-> <<>>,
                                                         waited |-> s.idle,
                                                         delay |-> s.fired])]
         IN ForEachSend(cleared, cfg, queueData, 1)

\* a sequence back to front
Reverse(q) == [i \in 1..Len(q) |-> q[Len(q) + 1 - i]]

\* flushQueue sending the snapshot back to front
FlushQueue_Reversed(s, cfg, kind) ==
  IF Len(s.dataQueue) = 0
    THEN s
    ELSE LET queueData == s.dataQueue
             cleared == [s EXCEPT !.dataQueue = <<>>,
                                  !.flushCount = @ + 1,
                                  !.sinceFlush = 0,
                                  !.flushes = Append(@, [kind |-> kind,
                                                         snapshot |-> queueData,
                                                         started |-> <<>>,
                                                         armed |-> <<>>,
                                                         waited |-> s.idle,
                                                         delay |-> s.fired])]
             sent == ForEachSend(cleared, cfg, Reverse(queueData), 1)
         IN IF sent.thrown
              THEN sent
              ELSE IF sent.batchTimer # Null
                     THEN [sent EXCEPT !.timers = ClearTimeout(@, sent.batchTimer),
                                       !.batchTimer = Null]
                     ELSE sent

\* flushQueue(); kind names the caller
FlushQueue(s, cfg, kind) ==
  IF Len(s.dataQueue) = 0
    THEN s
    ELSE LET queueData == s.dataQueue
             cleared == [s EXCEPT !.dataQueue = <<>>,
                                  !.flushCount = @ + 1,
                                  !.sinceFlush = 0,
                                  !.flushes = Append(@, [kind |-> kind,
                                                         snapshot |-> queueData,
                                                         started |-> <<>>,
                                                         armed |-> <<>>,
                                                         waited |-> s.idle,
                                                         delay |-> s.fired])]
             sent == ForEachSend(cleared, cfg, queueData, 1)
         IN IF sent.thrown
              THEN sent
              ELSE IF sent.batchTimer # Null
                     THEN [sent EXCEPT !.timers = ClearTimeout(@, sent.batchTimer),
                                       !.batchTimer = Null]
                     ELSE sent

\* ------------------------------------------------------- batch scheduler

\* resetBatchTimer()
ResetBatchTimer(s, cfg) ==
  LET cancelled == IF s.batchTimer # Null
                     THEN ClearTimeout(s.timers, s.batchTimer)
                     ELSE s.timers
      handle == NewHandle(s.timers, s.batchTimer)
  IN [s EXCEPT !.timers = cancelled \cup {[h |-> handle, rem |-> cfg.batchTimeout,
                                            delay |-> cfg.batchTimeout]},
               !.batchTimer = handle]

\* sendData without the test of config.enabled
SendData_NoEnabledTest(s, cfg, type, ser) ==
  LET asked == [s EXCEPT !.calledEnabled = @ \/ cfg.enabled]
      payload == [id |-> asked.seq + 1, type |-> type, ser |-> ser]
      pushed == [asked EXCEPT !.seq = @ + 1,
                              !.dataQueue = Append(@, payload),
                              !.sinceFlush = @ + 1,
                              !.idle = 0,
                              !.stray = @ \/ cfg.gasUrl = "",
                              !.sizes = @ \cup {cfg.batchSize}]
  IN IF Len(pushed.dataQueue) >= cfg.batchSize
       THEN FlushQueue(pushed, cfg, "size")
       ELSE ResetBatchTimer(pushed, cfg)

\* what is recorded of one sendData call: s before it, pushed after the
\* payload is appended, done at its end
CallRecord(s, cfg, type, pushed, done) ==
  [payload |-> pushed.dataQueue[Len(pushed.dataQueue)],
   batchSize |-> cfg.batchSize,
   queued |-> s.dataQueue,
   lenBefore |-> Len(s.dataQueue),
   since |-> pushed.sinceFlush,
   flushed |-> done.flushCount # pushed.flushCount,
   lenAfter |-> Len(done.dataQueue),
   timerAfter |-> done.batchTimer,
   threw |-> done.thrown]

\* sendData with the threshold test written > instead of >=
SendData_OffByOne(s, cfg, type, ser) ==
  LET asked == [s EXCEPT !.calledEnabled = @ \/ cfg.enabled]
  IN IF ~cfg.enabled
       THEN asked
       ELSE LET payload == [id |-> asked.seq + 1, type |-> type, ser |-> ser]
                pushed == [asked EXCEPT !.seq = @ + 1,
                                        !.dataQueue = Append(@, payload),
                                        !.sinceFlush = @ + 1,
                                        !.idle = 0,
                                        !.stray = @ \/ cfg.gasUrl = "",
                                        !.sizes = @ \cup {cfg.batchSize}]
                done == IF Len(pushed.dataQueue) > cfg.batchSize
                          THEN FlushQueue(pushed, cfg, "size")
                          ELSE ResetBatchTimer(pushed, cfg)
            IN [done EXCEPT !.calls =
                  Append(@, CallRecord(s, cfg, type, pushed, done))]

\* sendData(type, data); ser says whether data can be serialized
SendData(s, cfg, type, ser) ==
  LET asked == [s EXCEPT !.calledEnabled = @ \/ cfg.enabled]
  IN IF ~cfg.enabled
       THEN asked
       ELSE LET payload == [id |-> asked.seq + 1, type |-> type, ser |-> ser]
                pushed == [asked EXCEPT !.seq = @ + 1,
                                        !.dataQueue = Append(@, payload),
                                        !.sinceFlush = @ + 1,
                                        !.idle = 0,
                                        !.stray = @ \/ cfg.gasUrl = "",
                                        !.sizes = @ \cup {cfg.batchSize}]
                done == IF Len(pushed.dataQueue) >= cfg.batchSize
                          THEN FlushQueue(pushed, cfg, "size")
                          ELSE ResetBatchTimer(pushed, cfg)
            IN [done EXCEPT !.calls =
                  Append(@, CallRecord(s, cfg, type, pushed, done))]

\* --------------------------------------------------------- public calls

\* trackEvent(eventName, eventData)
TrackEventBody(s, cfg, ser) == SendData(s, cfg, "custom", ser)

\* trackConversion(goalName)
TrackConversionBody(s, cfg) == SendData(s, cfg, "marketing", TRUE)

\* the tracking calls of init, lines 57-69
InitTracking(s, cfg) ==
  LET a == SendData(s, cfg, "basic", TRUE)
      b == IF a.thrown THEN a ELSE SendData(a, cfg, "page", TRUE)
      c == IF b.thrown THEN b ELSE SendData(b, cfg, "device", TRUE)
      d == IF c.thrown THEN c ELSE SendData(c, cfg, "location", TRUE)
      e == IF d.thrown THEN d ELSE SendData(d, cfg, "marketing", TRUE)
  IN e

\* the listeners of one event run in turn; an exception in one is reported
\* by the browser and does not stop the next
RECURSIVE RunListeners(_, _, _, _)
RunListeners(s, cfg, n, type) ==
  IF n = 0
    THEN s
    ELSE LET r == SendData([s EXCEPT !.thrown = FALSE], cfg, type, TRUE)
         IN RunListeners([r EXCEPT !.thrown = s.thrown \/ r.thrown], cfg, n - 1, type)


\* ---------------------------------------------------------------- Init

Init ==
  /\ config = DefaultConfig
  /\ dataQueue = <<>>
  /\ batchTimer = Null
  /\ timers = {}
  /\ seq = 0
  /\ sentLog = <<>>
  /\ inflight = {}
  /\ flushes = <<>>
  /\ flushCount = 0
  /\ sinceFlush = 0
  /\ calls = <<>>
  /\ thrown = FALSE
  /\ idle = 0
  /\ lastDone = "none"
  /\ loadListeners = 0
  /\ unloadListeners = 0
  /\ loadFired = FALSE
  /\ unloaded = FALSE
  /\ inits = 0
  /\ trackCalls = 0
  /\ calledEnabled = FALSE
  /\ stray = FALSE
  /\ sizes = {}
  /\ throttleDelay = 0
  /\ now = StartTime
  /\ lastExecTime = 0
  /\ timeoutId = Null
  /\ throttleTimers = {}
  /\ throttleCalls = <<>>
  /\ execs = <<>>

\* ------------------------------------------------------------- actions

\* few enough deliveries are unsettled for another operation to run
Quiet == Cardinality(inflight) <= MaxUnsettled

\* the operation can build the n payloads it may build
Room(cfg, n) == cfg.enabled => seq + n <= MaxPayloads

\* DataJunction.init(options)
InitCall(options) ==
  LET cfg == Assign(config, options)
      tracked == InitTracking(Cur, cfg)
  IN /\ ~unloaded
     /\ inits < MaxInits
     /\ Quiet
     /\ cfg.gasUrl # "" => Room(cfg, 5)
     /\ config' = cfg
     /\ inits' = inits + 1
     /\ IF cfg.gasUrl = ""
          THEN /\ Commit(Cur)
               /\ UNCHANGED <<loadListeners, unloadListeners>>
          ELSE /\ Commit(tracked)
               /\ IF tracked.thrown
                    THEN UNCHANGED <<loadListeners, unloadListeners>>
                    ELSE /\ loadListeners' = loadListeners + 1
                         /\ unloadListeners' = unloadListeners + 1
     /\ UNCHANGED <<loadFired, unloaded, trackCalls>>

\* DataJunction.trackEvent(eventName, eventData)
TrackEvent(ser) ==
  /\ ~unloaded
  /\ Quiet
  /\ trackCalls < MaxTrackCalls
  /\ Room(config, 1)
  /\ trackCalls' = trackCalls + 1
  /\ Commit(TrackEventBody(Cur, config, ser))
  /\ UNCHANGED <<config, loadListeners, unloadListeners, loadFired,
                 unloaded, inits>>

\* DataJunction.trackConversion(goalName)
TrackConversion ==
  /\ ~unloaded
  /\ Quiet
  /\ trackCalls < MaxTrackCalls
  /\ Room(config, 1)
  /\ trackCalls' = trackCalls + 1
  /\ Commit(TrackConversionBody(Cur, config))
  /\ UNCHANGED <<config, loadListeners, unloadListeners, loadFired,
                 unloaded, inits>>

\* DataJunction.flushQueue() called by the host page
FlushQueueCall ==
  /\ ~unloaded
  /\ Quiet
  /\ Commit(FlushQueue(Cur, config, "direct"))
  /\ UNCHANGED <<config, loadListeners, unloadListeners, loadFired,
                 unloaded, inits, trackCalls>>

\* the window's load event: the listeners of trackPerformanceData
Load ==
  /\ ~unloaded
  /\ ~loadFired
  /\ Quiet
  /\ Room(config, loadListeners)
  /\ Commit(RunListeners(Cur, config, loadListeners, "performance"))
  /\ loadFired' = TRUE
  /\ UNCHANGED <<config, loadListeners, unloadListeners, unloaded, inits, trackCalls>>

\* the window's beforeunload event, after which the page is gone
BeforeUnload ==
  /\ ~unloaded
  /\ Quiet
  /\ Room(config, unloadListeners)
  /\ Commit(RunListeners(Cur, config, unloadListeners, "page"))
  /\ unloaded' = TRUE
  /\ UNCHANGED <<config, loadListeners, unloadListeners, loadFired, inits,
                 trackCalls>>

\* the callback of a pending setTimeout of resetBatchTimer runs
TimerFire(t) ==
  /\ ~unloaded
  /\ t \in timers
  /\ t.rem = 0
  /\ Quiet
  /\ Commit(FlushQueue([Cur EXCEPT !.timers = @ \ {t}, !.fired = t.delay],
                        config, "timer"))
  /\ UNCHANGED <<config, loadListeners, unloadListeners, loadFired,
                 unloaded, inits, trackCalls>>

\* the fetch of one payload settles: the request succeeded ("ok"), failed
\* ("neterr") or its response was not JSON ("nonjson"); the promise chain
\* logs the outcome and nothing else
Outcomes == {"ok", "neterr", "nonjson"}

Settle(id, outcome) ==
  /\ ~unloaded
  /\ id \in inflight
  /\ inflight' = inflight \ {id}
  /\ lastDone' = outcome
  /\ calls' = <<>>
  /\ flushes' = <<>>
  /\ thrown' = FALSE
  /\ UNCHANGED <<config, dataQueue, batchTimer, timers, seq, sentLog,
                 flushCount, sinceFlush, idle, loadListeners,
                 unloadListeners, loadFired, unloaded, inits, trackCalls,
                 calledEnabled, stray, sizes, throttleVars>>

\* time passes, up to the next timer that is due
Tick ==
  LET d == CHOOSE x \in {TickMs} \cup {t.rem : t \in timers} :
             \A y \in {TickMs} \cup {t.rem : t \in timers} : x <= y
  IN /\ ~unloaded
     /\ timers # {}
     /\ d > 0
     /\ timers' = {[t EXCEPT !.rem = @ - d] : t \in timers}
     /\ idle' = Min(idle + d, IdleCap)
     /\ calls' = <<>>
     /\ flushes' = <<>>
     /\ thrown' = FALSE
     /\ lastDone' = "none"
     /\ UNCHANGED <<config, dataQueue, batchTimer, seq, sentLog,
                    inflight, flushCount, sinceFlush,
                    loadListeners, unloadListeners, loadFired, unloaded, inits,
                    trackCalls, calledEnabled, stray, sizes, throttleVars>>

Next ==
  \/ \E options \in InitOptions : InitCall(options)
  \/ \E ser \in BOOLEAN : TrackEvent(ser)
  \/ TrackConversion
  \/ FlushQueueCall
  \/ Load
  \/ BeforeUnload
  \/ \E t \in timers : TimerFire(t)
  \/ \E id \in inflight, outcome \in Outcomes : Settle(id, outcome)
  \/ Tick

Spec == Init /\ [][Next]_vars

\* ------------------------------------------------------------- throttle

\* throttle(func, delay): the closure starts with timeoutId undefined and
\* lastExecTime 0
Throttle(delay) ==
  /\ throttleDelay = 0
  /\ throttleDelay' = delay
  /\ timeoutId' = Null
  /\ lastExecTime' = 0
  /\ UNCHANGED <<now, throttleTimers, throttleCalls, execs, trackerVars>>

\* the returned function with an else branch that does nothing
ThrottledCall_LeadingOnly ==
  LET currentTime == now
      args == Len(throttleCalls) + 1
      immediate == currentTime - lastExecTime > throttleDelay
      handle == NewHandle(throttleTimers, timeoutId)
  IN /\ throttleDelay # 0
     /\ Len(throttleCalls) < MaxThrottleCalls
     /\ throttleCalls' = Append(throttleCalls,
                                [at |-> currentTime, immediate |-> immediate,
                                 idle |-> immediate /\ throttleTimers = {}])
     /\ IF immediate
          THEN /\ execs' = Append(execs, [at |-> currentTime, args |-> args,
                                          trailing |-> FALSE,
                                          calls |-> Len(throttleCalls) + 1])
               /\ lastExecTime' = currentTime
               /\ UNCHANGED <<timeoutId, throttleTimers>>
          ELSE UNCHANGED <<execs, lastExecTime, timeoutId, throttleTimers>>
     /\ UNCHANGED <<throttleDelay, now, trackerVars>>

\* the returned function without the clearTimeout of the else branch
ThrottledCall_NoClear ==
  LET currentTime == now
      args == Len(throttleCalls) + 1
      immediate == currentTime - lastExecTime > throttleDelay
      handle == NewHandle(throttleTimers, timeoutId)
  IN /\ throttleDelay # 0
     /\ Len(throttleCalls) < MaxThrottleCalls
     /\ throttleCalls' = Append(throttleCalls,
                                [at |-> currentTime, immediate |-> immediate,
                                 idle |-> immediate /\ throttleTimers = {}])
     /\ IF immediate
          THEN /\ execs' = Append(execs, [at |-> currentTime, args |-> args,
                                          trailing |-> FALSE,
                                          calls |-> Len(throttleCalls) + 1])
               /\ lastExecTime' = currentTime
               /\ UNCHANGED <<timeoutId, throttleTimers>>
          ELSE /\ throttleTimers' = throttleTimers \cup
                    {[h |-> handle,
                      due |-> currentTime
                                + (throttleDelay - (currentTime - lastExecTime)),
                      args |-> args]}
               /\ timeoutId' = handle
               /\ UNCHANGED <<execs, lastExecTime>>
     /\ UNCHANGED <<throttleDelay, now, trackerVars>>

\* a call of the function throttle returned (lines 394-407); idle records
\* that the call ran func at once with no trailing timer pending
ThrottledCall ==
  LET currentTime == now
      args == Len(throttleCalls) + 1
      immediate == currentTime - lastExecTime > throttleDelay
      handle == NewHandle(throttleTimers, timeoutId)
  IN /\ throttleDelay # 0
     /\ Len(throttleCalls) < MaxThrottleCalls
     /\ throttleCalls' = Append(throttleCalls,
                                [at |-> currentTime, immediate |-> immediate,
                                 idle |-> immediate /\ throttleTimers = {}])
     /\ IF immediate
          THEN /\ execs' = Append(execs, [at |-> currentTime, args |-> args,
                                          trailing |-> FALSE,
                                          calls |-> Len(throttleCalls) + 1])
               /\ lastExecTime' = currentTime
               /\ UNCHANGED <<timeoutId, throttleTimers>>
          ELSE /\ throttleTimers' = ClearTimeout(throttleTimers, timeoutId) \cup
                    {[h |-> handle,
                      due |-> currentTime
                                + (throttleDelay - (currentTime - lastExecTime)),
                      args |-> args]}
               /\ timeoutId' = handle
               /\ UNCHANGED <<execs, lastExecTime>>
     /\ UNCHANGED <<throttleDelay, now, trackerVars>>

\* the callback of the throttle's pending setTimeout runs (lines 402-405), at
\* its due time or later: the browser runs a timer callback no earlier than
\* asked, after whatever the thread was busy with
ThrottleTimerFire(t) ==
  /\ t \in throttleTimers
  /\ now >= t.due
  /\ throttleTimers' = throttleTimers \ {t}
  /\ execs' = Append(execs, [at |-> now, args |-> t.args, trailing |-> TRUE,
                             calls |-> Len(throttleCalls)])
  /\ lastExecTime' = now
  /\ UNCHANGED <<throttleDelay, now, timeoutId, throttleCalls, trackerVars>>

\* the clock the throttle reads advances; it always reaches the time a
\* pending timer is due
ClockTick ==
  /\ throttleDelay # 0
  /\ \/ now < StartTime + MaxElapsed
     \/ \E t \in throttleTimers : now < t.due
  /\ now' = now + 1
  /\ UNCHANGED <<throttleDelay, lastExecTime, timeoutId, throttleTimers,
                 throttleCalls, execs, trackerVars>>

ThrottleNext ==
  \/ \E delay \in ThrottleDelays : Throttle(delay)
  \/ ThrottledCall
  \/ \E t \in throttleTimers : ThrottleTimerFire(t)
  \/ ClockTick

ThrottleSpec == Init /\ [][ThrottleNext]_vars

\* time passes, and the browser runs the callback of a pending timer that is
\* due
FairThrottleSpec ==
  /\ ThrottleSpec
  /\ WF_vars(ClockTick)
  /\ WF_vars(\E t \in throttleTimers : ThrottleTimerFire(t))

\* The browser runs the callback of a timer that is due, time passes while
\* a timer is pending, and every fetch settles.
FairSpec ==
  /\ Spec
  /\ WF_vars(Tick)
  /\ WF_vars(\E t \in timers : TimerFire(t))
  /\ WF_vars(\E id \in inflight, outcome \in Outcomes : Settle(id, outcome))


\* ---------------------------------------------------------------- claims

\* the ids of a sequence of payloads
Ids(ps) == [i \in 1..Len(ps) |-> ps[i].id]

\* a sequence of integers is strictly increasing
Increasing(ids) == \A i, j \in 1..Len(ids) : i < j => ids[i] < ids[j]

\* the elements of a sequence
Range(f) == {f[i] : i \in 1..Len(f)}

\* C1: a sendData call made with fewer than batchSize payloads queued flushes
\* exactly when the payload it enqueues is the batchSize-th since the last
\* flush; the queue is then empty when it ends, and a call that does not
\* flush leaves the payloads since the last flush queued, fewer than batchSize.
C1_SizeFlushAtNth ==
  \A i \in 1..Len(calls) :
    LET c == calls[i]
    IN c.lenBefore < c.batchSize =>
         /\ c.flushed <=> (c.since = c.batchSize)
         /\ c.flushed => c.lenAfter = 0
         /\ ~c.flushed => (c.lenAfter = c.since /\ c.lenAfter < c.batchSize)

\* a sendData call has enqueued the third payload since the last flush with
\* batchSize 3 and flushed
C1_Witness ==
  \E i \in 1..Len(calls) :
    /\ calls[i].batchSize = 3
    /\ calls[i].lenBefore = 2
    /\ calls[i].flushed
    /\ calls[i].lenAfter = 0


\* C6: sendToGAS is called in enqueue order: the payloads handed to it so far
\* were handed in the order of their ids, within a flush and across flushes,
\* and each of them was enqueued before every payload still queued; and a
\* delivery that settles, in any order and with any outcome, changes neither
\* dataQueue nor batchTimer nor the pending timers.
C6_FifoInitiation ==
  /\ [](/\ Increasing(sentLog)
        /\ Increasing(Ids(dataQueue))
        /\ \A a \in Range(sentLog), b \in Range(Ids(dataQueue)) : a < b
        /\ \A i \in 1..Len(flushes) :
             \A j \in 1..Len(flushes[i].started) :
               flushes[i].started[j] = flushes[i].snapshot[j])
  /\ [][(inflight' # inflight /\ inflight' \subseteq inflight)
          => UNCHANGED <<dataQueue, batchTimer, timers, sentLog>>]_vars

\* a flush has called sendToGAS for three payloads, after an earlier flush,
\* and the delivery of a later payload has settled before that of an earlier
C6_Witness ==
  /\ Len(sentLog) >= 4
  /\ \E i \in 1..Len(flushes) : Len(flushes[i].started) >= 3
  /\ \E a, b \in Range(sentLog) : a < b /\ a \in inflight /\ b \notin inflight

\* C8: as long as every tracking call so far (those of init, of the load and
\* beforeunload handlers, trackEvent, trackConversion) was made with
\* config.enabled false, dataQueue is empty, batchTimer is null, no timer is
\* pending and no delivery has been initiated.
C8_DisabledDoesNothing ==
  ~calledEnabled =>
    /\ dataQueue = <<>>
    /\ batchTimer = Null
    /\ timers = {}
    /\ seq = 0
    /\ sentLog = <<>>
    /\ inflight = {}

\* init, two public tracking calls and both handlers have run on a disabled
\* tracker
C8_Witness ==
  /\ ~calledEnabled
  /\ ~config.enabled
  /\ inits >= 1
  /\ trackCalls >= 2
  /\ loadListeners >= 1
  /\ unloadListeners >= 1
  /\ loadFired
  /\ unloaded


\* the operation that ran last was a trackEvent call with event data that can
\* be serialized, on a tracker that init has configured with batchSize 2
TrackEventAfterInit2 ==
  /\ inits >= 1
  /\ config.gasUrl # ""
  /\ config.enabled
  /\ config.batchSize = 2
  /\ Len(calls) = 1
  /\ calls[1].payload.type = "custom"
  /\ calls[1].payload.ser

\* C10 as claimed: after a successful init with batchSize 2 the first
\* trackEvent call leaves the queue at length 1 with the batch timer armed.
C10_FirstTrackEventQueues ==
  (TrackEventAfterInit2 /\ trackCalls = 1) =>
    /\ Len(dataQueue) = 1
    /\ batchTimer # Null

\* C10 amended: after a successful init with batchSize 2, a trackEvent call
\* made with dataQueue empty leaves the queue at length 1 with the batch timer
\* armed for config.batchTimeout, and a trackEvent call made with one custom
\* payload queued brings the queue to 2 and flushes at once: sendToGAS is
\* called for exactly those two payloads, both of type custom, in enqueue
\* order, the queue is left empty, batchTimer null and no timer pending.
C10_TrackEventPair ==
  TrackEventAfterInit2 =>
    LET c == calls[1]
    IN /\ c.lenBefore = 0 =>
            /\ dataQueue = <<c.payload>>
            /\ flushes = <<>>
            /\ batchTimer # Null
            /\ timers = {[h |-> batchTimer, rem |-> config.batchTimeout,
                          delay |-> config.batchTimeout]}
            /\ ~thrown
       /\ (c.lenBefore = 1 /\ c.queued[1].type = "custom" /\ c.queued[1].ser) =>
            /\ Len(flushes) = 1
            /\ flushes[1].kind = "size"
            /\ flushes[1].snapshot = <<c.queued[1], c.payload>>
            /\ flushes[1].started = flushes[1].snapshot
            /\ \A j \in 1..2 : flushes[1].started[j].type = "custom"
            /\ c.queued[1].id < c.payload.id
            /\ {c.queued[1].id, c.payload.id} \subseteq inflight
            /\ dataQueue = <<>>
            /\ batchTimer = Null
            /\ timers = {}
            /\ ~thrown

\* the second of two trackEvent calls has flushed the two custom payloads
C10_Witness ==
  /\ TrackEventAfterInit2
  /\ trackCalls = 2
  /\ calls[1].lenBefore = 1
  /\ calls[1].queued[1].type = "custom"
  /\ Len(flushes) = 1
  /\ Len(flushes[1].started) = 2
  /\ dataQueue = <<>>
  /\ batchTimer = Null

\* init has run with a gasUrl, the tracker is enabled and every payload was
\* built with the gasUrl set
Configured == inits >= 1 /\ config.gasUrl # "" /\ config.enabled /\ ~stray

\* C2: on a configured tracker, the flush a batch timer triggers on a queue
\* shorter than batchSize is the only flush of that callback, happens no later
\* than the timer's delay after the last enqueue, and hands exactly the queued
\* payloads to sendToGAS in insertion order.
C2_TimerFlushSendsAll ==
  Configured =>
    \A i \in 1..Len(flushes) :
      (flushes[i].kind = "timer" /\ Len(flushes[i].snapshot) < config.batchSize) =>
        /\ Len(flushes) = 1
        /\ flushes[i].waited <= flushes[i].delay
        /\ flushes[i].started = flushes[i].snapshot
        /\ dataQueue = <<>>

\* C3: on a configured tracker, every payload ever enqueued is either still in
\* dataQueue or has been handed to sendToGAS, never both, and never twice.
C3_Conservation ==
  Configured =>
    /\ \A id \in 1..seq :
         (id \in Range(Ids(dataQueue))) # (id \in Range(sentLog))
    /\ \A i, j \in 1..Len(sentLog) : sentLog[i] = sentLog[j] => i = j
    /\ \A i, j \in 1..Len(dataQueue) : dataQueue[i].id = dataQueue[j].id => i = j

\* C4: on a configured tracker, in every flush the delivery of each payload Q
\* of the snapshot is initiated whatever happened to its sibling payloads, and
\* the request of each Q that can be serialized is under way when the flush
\* ends.
C4_FailureIsolation ==
  Configured =>
    \A i \in 1..Len(flushes) :
      \A j \in 1..Len(flushes[i].snapshot) :
        LET Q == flushes[i].snapshot[j]
        IN /\ Q \in Range(flushes[i].started)
           /\ Q.ser => Q.id \in inflight

\* C5: on a configured tracker, no tracking call and no batch-timer callback
\* ends in an uncaught exception; a sendData call that flushed returns with
\* dataQueue empty and batchTimer null, and so does a timer callback.
C5_NoExceptionEscapes ==
  Configured =>
    /\ (\E i \in 1..Len(flushes) : flushes[i].kind \in {"size", "timer"}) => ~thrown
    /\ \A i \in 1..Len(calls) :
         calls[i].flushed => (calls[i].lenAfter = 0 /\ calls[i].timerAfter = Null)
    /\ (\E i \in 1..Len(flushes) : flushes[i].kind = "timer") =>
         (dataQueue = <<>> /\ batchTimer = Null /\ timers = {})

\* C7: on a configured tracker, whenever dataQueue is empty batchTimer is
\* null, and flushQueue called with dataQueue empty initiates no delivery and
\* leaves dataQueue, batchTimer and the pending timers as they are.
C7_EmptyFlushNoop ==
  /\ []((Configured /\ dataQueue = <<>>) => batchTimer = Null)
  /\ [][(dataQueue = <<>> /\ FlushQueueCall)
          => UNCHANGED <<dataQueue, batchTimer, timers, sentLog, inflight>>]_vars

\* C9: once init has been called and config.gasUrl is missing, no operation
\* other than a later init builds or enqueues a payload, arms a batch timer
\* or initiates a delivery.
C9_NoGasUrlNoTracking ==
  [][(inits >= 1 /\ config.gasUrl = "" /\ config'.gasUrl = "")
       => /\ seq' = seq
          /\ batchTimer' \in {batchTimer, Null}
          /\ sentLog' = sentLog]_vars

\* C11: on a configured tracker that init was given batchTimeoutMs, every
\* batch timer is armed for that value, and the flush a batch timer triggers
\* happens that long after the last enqueue.
C11_TimeoutOption ==
  (Configured /\ "batchTimeoutMs" \in DOMAIN config) =>
    /\ \A t \in timers : t.delay = config.batchTimeoutMs
    /\ \A i \in 1..Len(flushes) :
         flushes[i].kind = "timer" => flushes[i].waited = config.batchTimeoutMs

\* C15: on a configured tracker, between operations at most one batch timer
\* is pending, batchTimer holds a handle exactly when dataQueue is not empty,
\* that handle is the pending timer's, and no batch timer fires with
\* dataQueue empty.
C15_TimerIffQueue ==
  /\ [](Configured =>
          /\ Cardinality(timers) <= 1
          /\ (batchTimer # Null) <=> (dataQueue # <<>>)
          /\ \A t \in timers : t.h = batchTimer)
  /\ [][(Configured /\ \E t \in timers : TimerFire(t)) => dataQueue # <<>>]_vars

\* C16: as long as every payload was enqueued under one value N of
\* config.batchSize, dataQueue holds at most N-1 payloads between operations,
\* and every flush takes at least 1 and at most N payloads and calls
\* sendToGAS at least once and at most N times.
C16_BoundedBatch ==
  Cardinality(sizes) <= 1 =>
    \A N \in sizes :
      /\ Len(dataQueue) <= N - 1
      /\ \A i \in 1..Len(flushes) :
           /\ Len(flushes[i].snapshot) >= 1
           /\ Len(flushes[i].snapshot) <= N
           /\ Len(flushes[i].started) >= 1
           /\ Len(flushes[i].started) <= N

\* an operation under batchSize 3 has flushed three payloads and left two
\* queued
C16_Witness ==
  /\ sizes = {3}
  /\ Len(dataQueue) = 2
  /\ \E i \in 1..Len(flushes) : Len(flushes[i].started) = 3

\* C17: on a configured tracker, batchTimer is null at every call of
\* sendToGAS a flush makes: the flush has cancelled and cleared the batch
\* timer before it initiates the first delivery.
C17_TimerNullAtFirstSend ==
  Configured =>
    \A i \in 1..Len(flushes) :
      \A j \in 1..Len(flushes[i].armed) : ~flushes[i].armed[j]

\* C19: on a configured tracker, once the page has unloaded sendToGAS has been
\* called for the payload the beforeunload handler enqueued.
C19_UnloadPayloadSent ==
  (Configured /\ unloaded) =>
    \A i \in 1..Len(calls) : calls[i].payload.id \in Range(sentLog)

\* the closed set of categories
Categories ==
  {"identity", "page", "device", "location", "marketing", "performance", "custom"}

\* C20: the type of every payload an operation enqueues, and of every payload
\* in dataQueue, is one of the categories.
C20_ClosedCategories ==
  /\ \A i \in 1..Len(calls) : calls[i].payload.type \in Categories
  /\ \A i \in 1..Len(dataQueue) : dataQueue[i].type \in Categories

\* C18: as long as every payload was enqueued under one value N of
\* config.batchSize, a queued payload has fewer than N-1 payloads enqueued
\* after it; and on a configured tracker, unless the page unloads, again and
\* again every payload enqueued so far has been handed to sendToGAS, so that
\* no payload stays behind for ever.
C18_BoundedStarvation ==
  /\ [](Cardinality(sizes) <= 1 =>
          \A N \in sizes :
            \A i \in 1..Len(dataQueue) : seq - dataQueue[i].id < N - 1)
  /\ []<>(\/ ~Configured
          \/ unloaded
          \/ \A id \in 1..seq : id \in Range(sentLog))

\* the arguments func has been invoked with
ExecArgs == {execs[x].args : x \in 1..Len(execs)}

\* the most recent of the first n calls that was not executed immediately,
\* 0 when there is none
LatestDeferred(n) ==
  LET deferred == {i \in 1..n : ~throttleCalls[i].immediate}
  IN IF deferred = {}
       THEN 0
       ELSE CHOOSE i \in deferred : \A j \in deferred : j <= i

\* C12: any two consecutive invocations of the underlying function are at
\* least the delay apart.
C12_RateBound ==
  \A x \in 1..(Len(execs) - 1) : execs[x + 1].at - execs[x].at >= throttleDelay

\* C13: every invocation made by the timer uses the arguments of the most
\* recent call, among those made before it runs, that was not executed
\* immediately; every other invocation is of a call executed immediately; no
\* call is invoked twice, so a superseded call is never executed; as long as
\* the most recent deferred call has not been invoked, the timer that will
\* invoke it is pending; and it is eventually invoked.
C13_TrailingEdge ==
  /\ [](/\ \A x \in 1..Len(execs) :
             IF execs[x].trailing
               THEN /\ execs[x].args # 0
                    /\ execs[x].args = LatestDeferred(execs[x].calls)
               ELSE /\ throttleCalls[execs[x].args].immediate
                    /\ execs[x].at = throttleCalls[execs[x].args].at
        /\ \A x, y \in 1..Len(execs) : execs[x].args = execs[y].args => x = y
        /\ LET j == LatestDeferred(Len(throttleCalls))
           IN (j # 0 /\ j \notin ExecArgs) =>
                \E t \in throttleTimers : t.args = j /\ t.h = timeoutId)
  /\ []<>(\/ LatestDeferred(Len(throttleCalls)) = 0
          \/ LatestDeferred(Len(throttleCalls)) \in ExecArgs)

\* the timer has invoked func with the arguments of the third call, the
\* second call having been deferred and superseded
C13_Witness ==
  /\ Len(throttleCalls) >= 3
  /\ ~throttleCalls[2].immediate
  /\ ~throttleCalls[3].immediate
  /\ \E x \in 1..Len(execs) : execs[x].trailing /\ execs[x].args = 3
  /\ 2 \notin ExecArgs

\* the calls from the i-th on were all made less than the delay after it
Burst(i) ==
  \A m \in i..Len(throttleCalls) :
    throttleCalls[m].at - throttleCalls[i].at < throttleDelay

\* the invocations made for the calls from the i-th on
BurstExecs(i) ==
  {x \in 1..Len(execs) : execs[x].args \in i..Len(throttleCalls)}

\* C14 as claimed: once no timer is pending, a burst of calls has led to
\* exactly one invocation, with the arguments of its last call, or of its
\* first call when that one was executed immediately.
C14_OneInvocationPerBurst ==
  \A i \in 1..Len(throttleCalls) :
    (Burst(i) /\ throttleTimers = {}) =>
      /\ Cardinality(BurstExecs(i)) = 1
      /\ \A x \in BurstExecs(i) :
           \/ execs[x].args = Len(throttleCalls)
           \/ (execs[x].args = i /\ throttleCalls[i].immediate)

\* C14 amended: for a burst whose first call finds the throttle idle (it is
\* executed immediately and no timer is pending), that call is invoked at
\* once with its own arguments; the later calls of the burst are all
\* deferred and none but the last is ever invoked; while the timer is
\* pending it is the one of the last call, due the delay after the first
\* call; and once it has run, the burst has led to exactly two invocations,
\* the second with the arguments of the last call, no earlier than the delay
\* after the first.  A burst of one call leads to one invocation.
C14_LeadingAndTrailing ==
  \A i \in 1..Len(throttleCalls) :
    (Burst(i) /\ throttleCalls[i].idle) =>
      LET n == Len(throttleCalls)
          first == throttleCalls[i].at
      IN /\ \E x \in BurstExecs(i) :
              /\ execs[x].args = i
              /\ execs[x].at = first
              /\ ~execs[x].trailing
         /\ \A m \in (i + 1)..n : ~throttleCalls[m].immediate
         /\ \A m \in (i + 1)..(n - 1) : m \notin ExecArgs
         /\ n = i => (throttleTimers = {} /\ Cardinality(BurstExecs(i)) = 1)
         /\ (n > i /\ throttleTimers # {}) =>
              /\ Cardinality(BurstExecs(i)) = 1
              /\ throttleTimers = {[h |-> timeoutId,
                                    due |-> first + throttleDelay,
                                    args |-> n]}
         /\ (n > i /\ throttleTimers = {}) =>
              /\ Cardinality(BurstExecs(i)) = 2
              /\ \E x \in BurstExecs(i) :
                   /\ execs[x].args = n
                   /\ execs[x].trailing
                   /\ execs[x].at >= first + throttleDelay

\* a burst of three calls on an idle throttle has led to its two invocations
C14_Witness ==
  \E i \in 1..Len(throttleCalls) :
    /\ Burst(i)
    /\ throttleCalls[i].idle
    /\ Len(throttleCalls) = i + 2
    /\ throttleTimers = {}
    /\ Cardinality(BurstExecs(i)) = 2
    /\ Len(throttleCalls) \in ExecArgs

====
